---- MODULE Spec2Model ----
(***************************************************************************)
(* CarbonBlackResponseBackend (tools/sigma/backends/carbonblack.py): the   *)
(* translation of one Sigma rule into a Carbon Black query string.         *)
(*                                                                         *)
(* Texts.  A Python string is modelled as the sequence of its lexemes: a   *)
(* maximal run of letters, digits and "_" of a source literal or of a      *)
(* field name is one lexeme, every other character of a literal is one     *)
(* lexeme, and every character of a rule value is one lexeme.  String      *)
(* concatenation is \o.  No literal of the source is made only of the      *)
(* letters and digits that rule values draw from, so two texts are equal   *)
(* exactly when the strings are.                                           *)
(*                                                                         *)
(* Python's None is the string None_; an attribute that was never assigned *)
(* is Unset.                                                               *)
(***************************************************************************)
EXTENDS Integers, Sequences, FiniteSets, TLC

\* Bounds of the model.
MaxLen == 3      \* longest string value of a condition, in characters
MaxItems == 2    \* most children of an AND/OR node, most elements of a list value

None_ == "None"
Unset == "<unset>"

----------------------------------------------------------------------------
\* Class attributes.

reEscapeMatches(c) == c = "\""
reClear == None_
andToken == <<" ">>
orToken == <<" ", "OR", " ">>
notToken == <<"NOT", " ">>
subExpression(s) == <<"(">> \o s \o <<")">>
listExpression(s) == <<"(">> \o s \o <<")">>
listSeparator == <<" ">>
valueExpression(s) == <<"\"">> \o s \o <<"\"">>
nullExpression(f) == <<"NOT", " ", f, "=", "\"", "*", "\"">>
notNullExpression(f) == <<f, "=", "\"", "*", "\"">>
mapExpression(f, v) == <<f, ":">> \o v

\* A field mapping entry is a tuple of items: a string (its text) or the value
\* mapping function default_value_mapping.
MapStr(s) == [kind |-> "str", text |-> <<s>>]
MapFn == [kind |-> "callable", text |-> <<>>]
Pair(target) == <<MapStr(target), MapFn>>

fieldMappings ==
    ("AccountName" :> Pair("username")) @@
    ("Command" :> Pair("cmdline")) @@
    ("CommandLine" :> Pair("cmdline")) @@
    ("Company" :> Pair("company_name")) @@
    ("ComputerName" :> Pair("hostname")) @@
    ("DestinationHostname" :> Pair("domain")) @@
    ("DestinationIp" :> Pair("ipaddr")) @@
    ("DestinationIsIpv6" :> << [kind |-> "str", text |-> <<"ipv6addr", ":", "*">>] >>) @@
    ("DestinationPort" :> Pair("ipport")) @@
    ("EventType" :> Pair("ActionType")) @@
    ("Image" :> Pair("process_name")) @@
    ("ImageLoaded" :> Pair("modload")) @@
    ("Imphash" :> Pair("md5")) @@
    ("NewProcessName" :> Pair("process_name")) @@
    ("OriginalFilename" :> Pair("internal_name")) @@
    ("OriginalFileName" :> Pair("internal_name")) @@
    ("ParentImage" :> Pair("parent_name")) @@
    ("ProcessCommandLine" :> Pair("cmdline")) @@
    ("Product" :> Pair("product_name")) @@
    ("SourceImage" :> Pair("parent_name")) @@
    ("TargetFilename" :> Pair("filemod")) @@
    ("TargetImage" :> Pair("childproc_name")) @@
    ("TargetObject" :> Pair("regmod")) @@
    ("User" :> Pair("username"))

----------------------------------------------------------------------------
\* Values of a condition: str, int, list, None.

StrV(s) == [t |-> "str", s |-> s, n |-> 0, l |-> <<>>]
IntV(n) == [t |-> "int", s |-> <<>>, n |-> n, l |-> <<>>]
ListV(l) == [t |-> "list", s |-> <<>>, n |-> 0, l |-> l]
NoneV == [t |-> "NoneType", s |-> <<>>, n |-> 0, l |-> <<>>]

\* The outcome of a call: a returned text, a returned None, or a raised error;
\* with the value of self.table when the call ends.
Ret(text, table) == [kind |-> "text", text |-> text, exc |-> "", table |-> table]
RetNone(table) == [kind |-> "None", text |-> <<>>, exc |-> "", table |-> table]
Raise(exc, table) == [kind |-> "raise", text |-> <<>>, exc |-> exc, table |-> table]

\* str(n) of an integer n >= 0.
Digit(d) == <<"0", "1", "2", "3", "4", "5", "6", "7", "8", "9">>[d + 1]
RECURSIVE IntToStr(_)
IntToStr(n) == IF n < 10 THEN <<Digit(n)>> ELSE IntToStr(n \div 10) \o <<Digit(n % 10)>>

\* reEscape.sub(escapeSubst, val): every match is prefixed with a backslash.
RECURSIVE cleanValue(_)
cleanValue(val) ==
    IF val = <<>> THEN <<>>
    ELSE (IF reEscapeMatches(Head(val)) THEN <<"\\", Head(val)>> ELSE <<Head(val)>>)
         \o cleanValue(Tail(val))

\* default_value_mapping with a fault: the operator is left out of the result.
default_value_mapping_noop(val, table) ==
    IF val.t = "str"
    THEN Ret(<<"\"">> \o cleanValue(val.s) \o <<"\"">>, table)
    ELSE Raise("TypeError", table)

\* cleanValue applies the compiled pattern reEscape to val as it is: on an int
\* the pattern's sub raises TypeError.
default_value_mapping(val, table) ==
    IF val.t = "str"
    THEN Ret(<<":", "\"">> \o cleanValue(val.s) \o <<"\"">>, table)
    ELSE Raise("TypeError", table)

\* generateValueNode of the parent class.
generateValueNode(value) ==
    valueExpression(cleanValue(IF value.t = "int" THEN IntToStr(value.n) ELSE value.s))

\* generateMapItemNode of the parent class, for the values that reach it.
super_generateMapItemNode(key, value, table) ==
    IF value.t \in {"str", "int"}
    THEN Ret(mapExpression(key, generateValueNode(value)), table)
    ELSE IF value.t = "NoneType"
    THEN Ret(nullExpression(key), table)
    ELSE Raise("TypeError", table)

----------------------------------------------------------------------------
\* The expression tree.  A node is a condition (ConditionAND, ConditionOR,
\* ConditionNOT, ConditionNULLValue, ConditionNotNULLValue), a subexpression
\* or a map item, the tuple (key, value).

MapItem(key, value) == [type |-> "tuple", key |-> key, value |-> value, items |-> <<>>]
ConditionAND(items) == [type |-> "ConditionAND", key |-> "", value |-> NoneV, items |-> items]
ConditionOR(items) == [type |-> "ConditionOR", key |-> "", value |-> NoneV, items |-> items]
ConditionNOT(item) == [type |-> "ConditionNOT", key |-> "", value |-> NoneV, items |-> <<item>>]
NodeSubexpression(item) == [type |-> "NodeSubexpression", key |-> "", value |-> NoneV, items |-> <<item>>]
ConditionNULLValue(f) == [type |-> "ConditionNULLValue", key |-> f, value |-> NoneV, items |-> <<>>]
ConditionNotNULLValue(f) == [type |-> "ConditionNotNULLValue", key |-> f, value |-> NoneV, items |-> <<>>]

\* The instance attributes a rendering reads and writes.
Self(product, service, table) == [product |-> product, service |-> service, table |-> table]

\* The outcome of an EventID map item that selects no table: the code falls
\* through to the parent's generateMapItemNode.
FallThrough(table) == [kind |-> "super", text |-> <<>>, exc |-> "", table |-> table]

CreateRemoteThreadText ==
    <<"ActionType", " ", "=", "=", " ", "\"", "CreateRemoteThreadApiCall", "\"">>
RegistryValueSetText ==
    <<"ActionType", " ", "=", "=", " ", "\"", "RegistryValueSet", "\"">>

\* value == n, for a value of a condition and an integer literal n.
Eq(value, n) == value.t = "int" /\ value.n = n

\* The EventID branch with a fault: the product of the rule is not looked at.
generateMapItemNode_EventID_anyproduct(value, self) ==
    IF (self.service = "sysmon" /\ Eq(value, 1))
       \/ (self.service = "security" /\ Eq(value, 4688))
    THEN RetNone("ProcessCreationEvents")
    ELSE IF self.service = "sysmon" /\ Eq(value, 3)
    THEN RetNone("NetworkCommunicationEvents")
    ELSE IF self.service = "sysmon" /\ Eq(value, 7)
    THEN RetNone("ImageLoadEvents")
    ELSE IF self.service = "sysmon" /\ Eq(value, 8)
    THEN Ret(CreateRemoteThreadText, "MiscEvents")
    ELSE IF self.service = "sysmon" /\ Eq(value, 11)
    THEN RetNone("FileCreationEvents")
    ELSE IF (self.service = "sysmon" /\ Eq(value, 13))
            \/ (self.service = "security" /\ Eq(value, 4657))
    THEN Ret(RegistryValueSetText, "RegistryEvents")
    ELSE IF self.service = "security" /\ Eq(value, 4624)
    THEN RetNone("LogonEvents")
    ELSE FallThrough(self.table)

\* The branch key == "EventID" of generateMapItemNode.
generateMapItemNode_EventID(value, self) ==
    IF self.product = "windows"
    THEN IF (self.service = "sysmon" /\ Eq(value, 1))
            \/ (self.service = "security" /\ Eq(value, 4688))
         THEN RetNone("ProcessCreationEvents")
         ELSE IF self.service = "sysmon" /\ Eq(value, 3)
         THEN RetNone("NetworkCommunicationEvents")
         ELSE IF self.service = "sysmon" /\ Eq(value, 7)
         THEN RetNone("ImageLoadEvents")
         ELSE IF self.service = "sysmon" /\ Eq(value, 8)
         THEN Ret(CreateRemoteThreadText, "MiscEvents")
         ELSE IF self.service = "sysmon" /\ Eq(value, 11)
         THEN RetNone("FileCreationEvents")
         ELSE IF (self.service = "sysmon" /\ Eq(value, 13))
                 \/ (self.service = "security" /\ Eq(value, 4657))
         THEN Ret(RegistryValueSetText, "RegistryEvents")
         ELSE IF self.service = "security" /\ Eq(value, 4624)
         THEN RetNone("LogonEvents")
         ELSE FallThrough(self.table)
    ELSE FallThrough(self.table)

\* One step of the loop over zip(mapping, node).
MapItemResult(map_item, val, table) ==
    IF map_item.kind = "str" THEN Ret(map_item.text, table)
    ELSE default_value_mapping(val, table)

\* The default branch with a fault: a field without a mapping is not rejected
\* but rendered under its own name.
generateMapItemNode_default_lenient(key, value, table) ==
    IF key \notin DOMAIN fieldMappings
    THEN super_generateMapItemNode(key, value, table)
    ELSE LET mapping == fieldMappings[key]
             r1 == MapItemResult(mapping[1], StrV(<<key>>), table)
             r2 == MapItemResult(mapping[2], value, table)
         IN  IF Len(mapping) = 1
             THEN IF mapping[1].kind = "str" THEN Ret(mapping[1].text, table)
                  ELSE Raise("TypeError", table)
             ELSE IF Len(mapping) = 2
             THEN IF r1.kind = "raise" THEN r1
                  ELSE IF r2.kind = "raise" THEN r2
                  ELSE Ret(r1.text \o r2.text, table)
             ELSE Raise("TypeError", table)

\* The branch type(value) in (str, int) of generateMapItemNode.  A single
\* callable entry would be called with two arguments: no entry of the table is
\* one, and default_value_mapping takes one, a TypeError.
generateMapItemNode_default(key, value, table) ==
    IF key \notin DOMAIN fieldMappings
    THEN Raise("NotSupportedError", table)
    ELSE LET mapping == fieldMappings[key]
             r1 == MapItemResult(mapping[1], StrV(<<key>>), table)
             r2 == MapItemResult(mapping[2], value, table)
         IN  IF Len(mapping) = 1
             THEN IF mapping[1].kind = "str" THEN Ret(mapping[1].text, table)
                  ELSE Raise("TypeError", table)
             ELSE IF Len(mapping) = 2
             THEN IF r1.kind = "raise" THEN r1
                  ELSE IF r2.kind = "raise" THEN r2
                  ELSE Ret(r1.text \o r2.text, table)
             ELSE Raise("TypeError", table)

\* sep.join(texts)
RECURSIVE Join(_, _)
Join(texts, sep) ==
    IF texts = <<>> THEN <<>>
    ELSE IF Len(texts) = 1 THEN texts[1]
    ELSE texts[1] \o sep \o Join(Tail(texts), sep)

RECURSIVE generateNode(_, _)

\* [self.generateNode(val) for val in node] without its None results: the
\* children are rendered in order and the first error ends the rendering.
RECURSIVE generated(_, _)
generated(items, self) ==
    IF items = <<>> THEN [exc |-> "", texts |-> <<>>, table |-> self.table]
    ELSE LET r == generateNode(Head(items), self)
             rest == generated(Tail(items), [self EXCEPT !.table = r.table])
         IN  IF r.kind = "raise" THEN [exc |-> r.exc, texts |-> <<>>, table |-> r.table]
             ELSE IF rest.exc # "" THEN rest
             ELSE [exc |-> "",
                   texts |-> (IF r.kind = "None" THEN <<>> ELSE <<r.text>>) \o rest.texts,
                   table |-> rest.table]

generateANDNode(items, self) ==
    LET g == generated(items, self)
    IN  IF g.exc # "" THEN Raise(g.exc, g.table)
        ELSE IF g.texts # <<>> THEN Ret(Join(g.texts, andToken), g.table)
        ELSE RetNone(g.table)

generateORNode(items, self) ==
    LET g == generated(items, self)
    IN  IF g.exc # "" THEN Raise(g.exc, g.table)
        ELSE IF g.texts # <<>> THEN Ret(Join(g.texts, orToken), g.table)
        ELSE RetNone(g.table)

generateNOTNode(item, self) ==
    LET r == generateNode(item, self)
    IN  IF r.kind = "text" THEN Ret(notToken \o r.text, r.table) ELSE r

generateSubexpressionNode(item, self) ==
    LET r == generateNode(item, self)
    IN  IF r.kind = "text" /\ r.text # <<>> THEN Ret(subExpression(r.text), r.table)
        ELSE IF r.kind = "raise" THEN r
        ELSE RetNone(r.table)

\* [(key, v) for v in value]
RECURSIVE MapItemsOf(_, _)
MapItemsOf(key, l) ==
    IF l = <<>> THEN <<>> ELSE <<MapItem(key, Head(l))>> \o MapItemsOf(key, Tail(l))

\* generateMapItemNode(node) for node = (key, value).
generateMapItemNode(key, value, self) ==
    LET e == generateMapItemNode_EventID(value, self)
    IN  IF value.t = "list"
        THEN generateORNode(MapItemsOf(key, value.l), self)
        ELSE IF key = "EventID"
        THEN IF e.kind = "super" THEN super_generateMapItemNode(key, value, self.table)
             ELSE e
        ELSE IF value.t \in {"str", "int"}
        THEN generateMapItemNode_default(key, value, self.table)
        ELSE super_generateMapItemNode(key, value, self.table)

generateNode(node, self) ==
    CASE node.type = "ConditionAND" -> generateANDNode(node.items, self)
      [] node.type = "ConditionOR" -> generateORNode(node.items, self)
      [] node.type = "ConditionNOT" -> generateNOTNode(node.items[1], self)
      [] node.type = "ConditionNULLValue" -> Ret(nullExpression(node.key), self.table)
      [] node.type = "ConditionNotNULLValue" -> Ret(notNullExpression(node.key), self.table)
      [] node.type = "NodeSubexpression" -> generateSubexpressionNode(node.items[1], self)
      [] node.type = "tuple" -> generateMapItemNode(node.key, node.value, self)

----------------------------------------------------------------------------
\* Rules.  A rule (sigmaparser) is its parsed condition, tree, and the
\* logsource mapping of its parsedyaml: present tells whether parsedyaml has
\* the key 'logsource', and d gives each key of the mapping its value, Absent
\* for a key the mapping does not hold.

Absent == "<absent>"
Keys == {"category", "product", "service"}

Logsource(c, p, s) ==
    [present |-> TRUE, d |-> [category |-> c, product |-> p, service |-> s]]
NoLogsource ==
    [present |-> FALSE, d |-> [category |-> Absent, product |-> Absent, service |-> Absent]]
Rule(tree, logsource) == [tree |-> tree, logsource |-> logsource]

\* d.setdefault(k, None) for each of the three keys: the value of k, which is
\* added with the value None when d does not hold it.
setdefault(d, k) == IF d[k] = Absent THEN None_ ELSE d[k]

\* generate of the parent class: the text of the rule's condition; a condition
\* that renders to None gives the empty string.
super_generate(tree, self) ==
    LET r == generateNode(tree, self)
    IN  IF r.kind = "None" THEN Ret(<<>>, r.table) ELSE r

\* The instance and the rule after a call of generate.
Called(category, self, r, logsource) ==
    [category |-> category, product |-> self.product, service |-> self.service,
     table |-> r.table, outcome |-> [kind |-> r.kind, text |-> r.text, exc |-> r.exc],
     logsource |-> logsource]

\* generate with a fault: self.table is not reset when a call begins.
generate_keeps_table(self, rule) ==
    LET ls == rule.logsource
    IN  IF ls.present
        THEN LET me == Self(setdefault(ls.d, "product"), setdefault(ls.d, "service"),
                            self.table)
             IN  Called(setdefault(ls.d, "category"), me, super_generate(rule.tree, me),
                        [ls EXCEPT !.d = [k \in Keys |-> setdefault(ls.d, k)]])
        ELSE LET me == Self(None_, None_, self.table)
             IN  Called(None_, me, super_generate(rule.tree, me), ls)

\* generate(sigmaparser) on the instance self.
generate(self, rule) ==
    LET ls == rule.logsource
    IN  IF ls.present
        THEN LET me == Self(setdefault(ls.d, "product"), setdefault(ls.d, "service"),
                            None_)
             IN  Called(setdefault(ls.d, "category"), me, super_generate(rule.tree, me),
                        [ls EXCEPT !.d = [k \in Keys |-> setdefault(ls.d, k)]])
        ELSE LET me == Self(None_, None_, None_)
             IN  Called(None_, me, super_generate(rule.tree, me), ls)

----------------------------------------------------------------------------
\* The rules the model translates.

Chars == {"a", "\"", "\\", "*", "<"}
\* The sequences over S of length at most n, and those of length lo..MaxItems.
RECURSIVE SeqsTo(_, _)
SeqsTo(S, n) ==
    IF n = 0 THEN {<<>>}
    ELSE SeqsTo(S, n - 1) \cup {Append(q, x) : q \in SeqsTo(S, n - 1), x \in S}
Strings == SeqsTo(Chars, MaxLen)
SeqsUpTo(S, lo) == {q \in SeqsTo(S, MaxItems) : Len(q) >= lo}

UnmappedFields == {"Hashes", "ParentCommandLine"}
AllFields == DOMAIN fieldMappings \cup UnmappedFields \cup {"EventID"}
EventIDs == {1, 3, 7, 8, 11, 13, 4624, 4657, 4688, 2}

Sysmon == Logsource(Absent, "windows", "sysmon")
Security == Logsource("process_creation", "windows", "security")
AllLogsources ==
    {NoLogsource} \cup
    {Logsource(c, p, s) : c \in {Absent, "process_creation"},
                          p \in {Absent, "windows", "linux"},
                          s \in {Absent, "sysmon", "security"}}

SmallLeaves ==
    {MapItem("CommandLine", StrV(<<"a">>)), MapItem("Hashes", StrV(<<"a">>)),
     MapItem("EventID", IntV(1)), MapItem("EventID", IntV(13)),
     MapItem("DestinationPort", IntV(5))}
SmallValues == {StrV(<<"a">>), StrV(<<"<">>), IntV(1), NoneV}

FieldTrees ==
    {MapItem(f, v) : f \in AllFields, v \in {StrV(<<"a">>), NoneV}} \cup
    {MapItem(f, IntV(5)) : f \in {"DestinationIsIpv6", "DestinationPort", "Hashes"}}
StringTrees == {MapItem("CommandLine", StrV(s)) : s \in Strings}
EventIDTrees == {MapItem("EventID", IntV(n)) : n \in EventIDs}
ListTrees ==
    {MapItem(f, ListV(l)) : f \in {"CommandLine", "Hashes", "EventID"},
                            l \in SeqsUpTo(SmallValues, 0)}
NullTrees ==
    {ConditionNULLValue(f) : f \in {"CommandLine", "Hashes"}} \cup
    {ConditionNotNULLValue(f) : f \in {"CommandLine", "Hashes"}}
AndOrTrees ==
    {ConditionAND(l) : l \in SeqsUpTo(SmallLeaves, 1)} \cup
    {ConditionOR(l) : l \in SeqsUpTo(SmallLeaves, 1)}
NestedTrees ==
    {ConditionNOT(l) : l \in SmallLeaves} \cup
    {NodeSubexpression(l) : l \in SmallLeaves} \cup
    {ConditionAND(<<l, ConditionNOT(NodeSubexpression(ConditionOR(<<m, l>>)))>>) :
        l \in SmallLeaves, m \in SmallLeaves}

Rules ==
    {Rule(t, Sysmon) : t \in FieldTrees} \cup
    {Rule(t, NoLogsource) : t \in StringTrees} \cup
    {Rule(t, ls) : t \in EventIDTrees, ls \in AllLogsources} \cup
    {Rule(t, ls) : t \in ListTrees \cup AndOrTrees \cup NestedTrees \cup NullTrees,
                   ls \in {Sysmon, Security}}

TableLeaves ==
    {MapItem("EventID", IntV(1)), MapItem("EventID", IntV(13)),
     MapItem("Hashes", StrV(<<"a">>))}
TableRules ==
    {Rule(t, ls) : t \in EventIDTrees,
                   ls \in {Sysmon, Security, NoLogsource,
                           Logsource(Absent, "linux", "sysmon")}} \cup
    {Rule(ConditionAND(l), Sysmon) : l \in SeqsUpTo(TableLeaves, 1)}

CallRules ==
    TableRules \cup
    {Rule(t, ls) : t \in AndOrTrees \cup NullTrees, ls \in {Sysmon, NoLogsource}}

----------------------------------------------------------------------------
\* The translator instance and its calls.

VARIABLES
    category, product, service, table,  \* the attributes of the instance
    outcome,    \* what the last call of generate returned or raised
    state,      \* INIT, then DONE or FAILED after each call
    rule,       \* the rule passed to the last call, as it is after the call
    arg,        \* the same rule as it was when the call began
    tables,     \* history: the values self.table has held at the end of a call
    prev        \* history: state and self.table as the last call found them

vars == <<category, product, service, table, outcome, state, rule, arg, tables, prev>>

NoRule == Rule(ConditionAND(<<>>), NoLogsource)

Init ==
    /\ category = Unset
    /\ product = Unset
    /\ service = Unset
    /\ table = Unset
    /\ outcome = [kind |-> "None", text |-> <<>>, exc |-> ""]
    /\ state = "INIT"
    /\ rule = NoRule
    /\ arg = NoRule
    /\ tables = {}
    /\ prev = [state |-> "INIT", table |-> Unset]

Generate(r) ==
    \E c \in {generate(Self(product, service, table), r)} :
        /\ category' = c.category
        /\ product' = c.product
        /\ service' = c.service
        /\ table' = c.table
        /\ outcome' = c.outcome
        /\ state' = IF c.outcome.kind = "raise" THEN "FAILED" ELSE "DONE"
        /\ rule' = [r EXCEPT !.logsource = c.logsource]
        /\ arg' = r

Next == \E r \in Rules : Generate(r) /\ UNCHANGED <<tables, prev>>

Spec == Init /\ [][Next]_vars

\* The same calls, recording the tables the instance has selected.
NextTables ==
    \E r \in TableRules : Generate(r) /\ tables' = tables \cup {table'} /\ UNCHANGED prev

SpecTables == Init /\ [][NextTables]_vars

\* The same calls, recording what each call found on the instance.
NextCalls ==
    \E r \in CallRules :
        Generate(r) /\ prev' = [state |-> state, table |-> table] /\ UNCHANGED tables

SpecCalls == Init /\ [][NextCalls]_vars

----------------------------------------------------------------------------
\* Properties.

AfterCall == state # "INIT"
Returned == state = "DONE"
Failed(exc) == state = "FAILED" /\ outcome.exc = exc

\* The map items of a tree in the order they are visited, a list value
\* counted as one map item per element.
RECURSIVE Leaves(_)
RECURSIVE LeavesOfAll(_)
Leaves(node) ==
    IF node.type = "tuple"
    THEN IF node.value.t = "list"
         THEN LeavesOfAll(MapItemsOf(node.key, node.value.l))
         ELSE <<node>>
    ELSE LeavesOfAll(node.items)
LeavesOfAll(items) ==
    IF items = <<>> THEN <<>> ELSE Leaves(Head(items)) \o LeavesOfAll(Tail(items))

\* The map item nodes of a tree, as they stand in it.
RECURSIVE MapItems(_)
RECURSIVE MapItemsOfAll(_)
MapItems(node) == IF node.type = "tuple" THEN {node} ELSE MapItemsOfAll(node.items)
MapItemsOfAll(items) ==
    IF items = <<>> THEN {} ELSE MapItems(Head(items)) \cup MapItemsOfAll(Tail(items))

IsPairEntry(key) == key \in DOMAIN fieldMappings /\ Len(fieldMappings[key]) = 2
TargetField(key) == fieldMappings[key][1].text[1]
Count(x, text) == Cardinality({i \in 1..Len(text) : text[i] = x})

\* A text without the backslashes that stand before a double quote.
RECURSIVE Unescape(_)
Unescape(text) ==
    IF text = <<>> THEN <<>>
    ELSE IF Len(text) >= 2 /\ text[1] = "\\" /\ text[2] = "\""
    THEN <<"\"">> \o Unescape(Tail(Tail(text)))
    ELSE <<Head(text)>> \o Unescape(Tail(text))

NoMapping(leaf) ==
    /\ leaf.key \notin DOMAIN fieldMappings
    /\ leaf.key # "EventID"
    /\ leaf.value.t \in {"str", "int"}
IntOnPair(leaf) == IsPairEntry(leaf.key) /\ leaf.value.t = "int"

ValueText(value) == IF value.t = "int" THEN IntToStr(value.n) ELSE value.s

SingleText(key, v) ==
    generate(Self(Unset, Unset, Unset), Rule(MapItem(key, v), arg.logsource)).outcome.text
RECURSIVE SingleTexts(_, _)
SingleTexts(key, l) ==
    IF l = <<>> THEN <<>> ELSE <<SingleText(key, Head(l))>> \o SingleTexts(key, Tail(l))

\* C3 as stated: a condition whose value is a list of strings on a mapped
\* field renders to the renderings of the single conditions, in list order,
\* joined by " OR ", the whole in parentheses.
C3_ListIsParenthesizedOr ==
    LET key == arg.tree.key
        l == arg.tree.value.l
    IN  (/\ AfterCall
         /\ arg.tree.type = "tuple"
         /\ arg.tree.value.t = "list"
         /\ IsPairEntry(key)
         /\ Len(l) >= 1
         /\ \A i \in 1..Len(l) : l[i].t = "str")
            => /\ Returned
               /\ outcome.text = <<"(">> \o Join(SingleTexts(key, l), orToken) \o <<")">>

\* C4: after every call, the attributes of the instance and the outcome of the
\* call are those of the same call on a newly made instance: they depend on
\* the rule passed and on nothing an earlier call left behind.
C4_CallsAreIndependent ==
    AfterCall =>
        LET fresh == generate(Self(Unset, Unset, Unset), arg)
        IN  /\ category = fresh.category
            /\ product = fresh.product
            /\ service = fresh.service
            /\ table = fresh.table
            /\ outcome = fresh.outcome

\* C4, witness: a call that found the table an earlier, failed call had
\* selected, and that ended with no table and its own context.
C4_Witness ==
    /\ prev = [state |-> "FAILED", table |-> "ProcessCreationEvents"]
    /\ Returned
    /\ table = None_
    /\ product = None_
    /\ arg.logsource = NoLogsource
    /\ arg.tree = MapItem("EventID", IntV(1))

\* C5 as stated: the rule passed to generate is after the call as it was
\* before it, the keys of its logsource mapping included.
C5_RuleIsUnchanged == AfterCall => rule = arg

\* C6 as stated: generate returns no string that holds the character < or >.
C6_NoAngleBracketReturned ==
    Returned => \A i \in 1..Len(outcome.text) : outcome.text[i] \notin {"<", ">"}

\* C7 as stated: a condition whose value holds two or more backslashes is not
\* translated (no field of the table is flagged as supporting full paths).
C7_MultiSegmentPathFails ==
    (/\ AfterCall
     /\ arg.tree.type = "tuple"
     /\ arg.tree.value.t = "str"
     /\ Count("\\", arg.tree.value.s) >= 2)
        => state = "FAILED"

\* C8 as stated: for a value *\name with that one backslash, the value written
\* between the quotes of the rendered condition is name.
C8_PathIsCollapsed ==
    LET v == arg.tree.value.s
        text == outcome.text
    IN  (/\ AfterCall
         /\ arg.tree.type = "tuple"
         /\ IsPairEntry(arg.tree.key)
         /\ arg.tree.value.t = "str"
         /\ Len(v) >= 3
         /\ v[1] = "*"
         /\ v[2] = "\\"
         /\ Count("\\", v) = 1)
            => /\ Returned
               /\ Unescape(SubSeq(text, 4, Len(text) - 1)) = SubSeq(v, 3, Len(v))

\* C9 as stated: a not-null test on field F renders to F:* and a null test
\* to -F:*.
C9_NullTemplates ==
    /\ (AfterCall /\ arg.tree.type = "ConditionNotNULLValue")
           => (Returned /\ outcome.text = <<arg.tree.key, ":", "*">>)
    /\ (AfterCall /\ arg.tree.type = "ConditionNULLValue")
           => (Returned /\ outcome.text = <<"-", arg.tree.key, ":", "*">>)

\* The event tables, and the (service, EventID) pairs that select them.
EventTables ==
    {"ProcessCreationEvents", "NetworkCommunicationEvents", "ImageLoadEvents",
     "MiscEvents", "FileCreationEvents", "RegistryEvents", "LogonEvents"}
Selection ==
    {<<"sysmon", 1, "ProcessCreationEvents">>, <<"security", 4688, "ProcessCreationEvents">>,
     <<"sysmon", 3, "NetworkCommunicationEvents">>, <<"sysmon", 7, "ImageLoadEvents">>,
     <<"sysmon", 8, "MiscEvents">>, <<"sysmon", 11, "FileCreationEvents">>,
     <<"sysmon", 13, "RegistryEvents">>, <<"security", 4657, "RegistryEvents">>,
     <<"security", 4624, "LogonEvents">>}

\* The selections a leaf makes under the logsource of the rule last passed.
SelectedBy(leaf) ==
    {x \in Selection :
        /\ arg.logsource.present
        /\ arg.logsource.d.product = "windows"
        /\ arg.logsource.d.service = x[1]
        /\ leaf.key = "EventID"
        /\ leaf.value.t = "int"
        /\ leaf.value.n = x[2]}

\* The leaves of the rule last passed that were visited: all of them, or those
\* up to the first one that raises.
VisitedLeaves ==
    LET L == Leaves(arg.tree)
        bad == {i \in 1..Len(L) : NoMapping(L[i]) \/ IntOnPair(L[i])}
    IN  IF bad = {} THEN L
        ELSE SubSeq(L, 1, CHOOSE i \in bad : \A j \in bad : i <= j)

\* The table the last selecting leaf visited selects, None without one.
ExpectedTable ==
    LET V == VisitedLeaves
        sel == {i \in 1..Len(V) : SelectedBy(V[i]) # {}}
        last == CHOOSE i \in sel : \A j \in sel : j <= i
    IN  IF sel = {} THEN None_
        ELSE (CHOOSE x \in SelectedBy(V[last]) : TRUE)[3]

\* C10, amended: after any sequence of calls the table is None or one of the
\* seven event tables; it is the table selected by the last visited EventID
\* leaf of a rule with product windows whose (service, value) is one of the
\* nine selecting pairs, and None when no visited leaf selects; a selecting
\* leaf alone renders to nothing, or to the fixed ActionType text for the
\* values 8, 13 and 4657.
C10_TableSelection ==
    AfterCall =>
        /\ table \in {None_} \cup EventTables
        /\ tables \subseteq {None_} \cup EventTables
        /\ table = ExpectedTable
        /\ (arg.tree.type = "tuple" /\ SelectedBy(arg.tree) # {}) =>
               /\ Returned
               /\ outcome.text =
                      IF arg.tree.value.n = 8
                      THEN <<"ActionType", " ", "=", "=", " ", "\"",
                             "CreateRemoteThreadApiCall", "\"">>
                      ELSE IF arg.tree.value.n \in {13, 4657}
                      THEN <<"ActionType", " ", "=", "=", " ", "\"",
                             "RegistryValueSet", "\"">>
                      ELSE <<>>

\* C10 as stated: the same, the tables the instance selects being six.
C10_SixTables ==
    C10_TableSelection /\ Cardinality(tables \ {None_}) <= 6

\* C10, witness: a rule with two selecting leaves has left the table of the
\* second, on an instance that has selected each of the seven tables.
C10_Witness ==
    /\ Returned
    /\ arg.tree = ConditionAND(<<MapItem("EventID", IntV(1)), MapItem("EventID", IntV(13))>>)
    /\ table = "RegistryEvents"
    /\ tables = {None_} \cup EventTables

====
